---- MODULE Spec2Model ----
(***************************************************************************)
(* Replication of one RxDB collection with one Supabase table, as set up   *)
(* by syncCollection (src/lib/sync.ts), seen from NumReplicas devices that *)
(* share the remote table.  Timestamps and ids are small integers ordered  *)
(* as the ISO strings and UUIDs they stand for.                            *)
(***************************************************************************)
EXTENDS Integers, Sequences, FiniteSets, TLC

\* ------------------------------------------------------------- bounds
NumReplicas == 2
MaxId == 2
MaxTime == 3
MaxWrites == 2
MaxFaults == 2
MaxCancels == 1
MaxInflight == 1
MaxPullRows == 3
MaxPullTime == 2
MaxTies == 5
MaxBatch == 3
MaxHarnessWrites == 1
MaxSyncRows == 120
MaxClump == 3
MaxEvents == 3

\* -------------------------------------------------- program constants
Epoch == 0              \* new Date(0).toISOString()
MinUUID == 0            \* '00000000-0000-0000-0000-000000000000'
PullBatchSize == 50
PushBatchSize == 50
Undefined == -1         \* a JavaScript undefined in an integer-valued field

Replicas == 1..NumReplicas
Ids == 1..MaxId
Times == 1..MaxTime
\* the timestamps of the rows in the tables pullHandler is called against
PullTimes == 1..MaxPullTime

VARIABLES
    remote,       \* the Supabase table: id -> row, for the ids that have a row
    local,        \* local[r]: the RxDB collection of replica r: id -> document
    dirty,        \* dirty[r]: ids whose local state is not yet pushed
    ckpt,         \* ckpt[r]: the pull checkpoint RxDB has persisted
    online,       \* online[r]: navigator.onLine
    pullPc,       \* pullPc[r]: where the pull side of r stands
    pushPc,       \* pushPc[r]: where the push side of r stands
    pushRows,     \* pushRows[r]: the documents handed to the running pushHandler
    resync,       \* resync[r]: a pull pass is requested (autoStart, reSync())
    rt,           \* rt[r]: realtime payloads on their way to replica r
    stopped,      \* stopped[r]: replicationState.isStopped()
    cancelPc,     \* cancelPc[r]: progress of replicationState.cancel()
    pollArmed,    \* pollArmed[r]: the setInterval timer exists
    channelOn,    \* channelOn[r]: the realtime channel is subscribed
    lastFailure,  \* lastFailure[r]: what the last failed handler call did
    pullGiven,    \* pullGiven[r]: the checkpoint the running pullHandler got
    writes,       \* local writes made so far (bounded by MaxWrites)
    faults,       \* connectivity faults injected so far (bounded by MaxFaults)
    hCkpt,        \* harness: checkpoint fed to the next pullHandler call
    hBatch,       \* harness: batchSize argument
    hLog,         \* harness: one record per completed pullHandler call
    hWrites       \* harness: remote upserts made between the calls

replVars == <<local, dirty, ckpt, online, pullPc, pushPc, pushRows, resync, rt,
              stopped, cancelPc, pollArmed, channelOn, lastFailure, pullGiven,
              writes, faults>>
harnessVars == <<hCkpt, hBatch, hLog, hWrites>>
vars == <<remote, replVars, harnessVars>>

\* ------------------------------------------------------------ helpers
Min(a, b) == IF a < b THEN a ELSE b

EmptyTable == [i \in {} |-> 0]

\* checkpoint === null / undefined
NullCheckpoint == [isNull |-> TRUE, updated_at |-> Undefined, id |-> Undefined]

Checkpoint(t, i) == [isNull |-> FALSE, updated_at |-> t, id |-> i]

\* ------------------------------------------------ db-mappers.ts (tasks)
\* local document: [id, title, updatedAt, _deleted]
\* remote row:     [id, title, updated_at, deleted]
mapTaskToRemote(task) ==
    [id |-> task.id, title |-> task.title,
     updated_at |-> task.updatedAt, deleted |-> task._deleted = TRUE]

mapTaskToLocal(row) ==
    [id |-> row.id, title |-> row.title,
     updatedAt |-> row.updated_at, _deleted |-> row.deleted]

mapToRemote(doc) == mapTaskToRemote(doc)

mapToLocal(row) == mapTaskToLocal(row)

\* ------------------------------------------- db-mappers.ts (all fields)
\* Field values are strings: Absent stands for undefined (the property is
\* missing), Null for null, "" for the empty string, "[]" and "{}" for the
\* empty array and object, "0" for the number zero.
Absent == "undefined"

Null == "null"

\* a || b on these values: "", undefined and null are falsy, [] and {} are not
OrElse(a, b) == IF a \in {"", Absent, Null} THEN b ELSE a

\* a ?? b
Nullish(a, b) == IF a \in {Absent, Null} THEN b ELSE a

\* !!x._deleted
Truthy(x) == x = TRUE

\* a user row that carries the password
mapUserToRemoteWithPassword(user) ==
    [id |-> user.id, email |-> user.email, username |-> user.username,
     name |-> user.name, password |-> user.password,
     phone_number |-> user.phoneNumber, created_at |-> user.createdAt,
     deleted |-> Truthy(user._deleted)]

mapUserToRemote(user) ==
    [id |-> user.id, email |-> user.email, username |-> user.username,
     name |-> user.name, phone_number |-> user.phoneNumber,
     created_at |-> user.createdAt, deleted |-> Truthy(user._deleted)]

mapUserToLocal(row) ==
    [id |-> row.id, email |-> row.email, username |-> row.username,
     name |-> row.name, password |-> "encrypted",
     phoneNumber |-> OrElse(row.phone_number, Absent),
     createdAt |-> row.created_at, _deleted |-> row.deleted]

mapTeamToRemote(team) ==
    [id |-> team.id, name |-> team.name, description |-> team.description,
     members |-> team.members, created_at |-> team.createdAt,
     deleted |-> Truthy(team._deleted)]

\* row.updated_at of a row built by mapTeamToRemote is undefined
mapTeamToLocal(row) ==
    [id |-> row.id, name |-> row.name,
     description |-> OrElse(row.description, Absent),
     members |-> OrElse(row.members, "[]"),
     createdAt |-> row.created_at,
     updatedAt |-> IF "updated_at" \in DOMAIN row THEN row.updated_at
                   ELSE Absent,
     _deleted |-> row.deleted]

\* mapTaskToRemote with every field it copies
mapTaskToRemoteAll(task) ==
    [id |-> task.id, title |-> task.title, description |-> task.description,
     status |-> task.status, priority |-> task.priority,
     deadline |-> task.deadline, completed_at |-> task.completedAt,
     team_id |-> task.teamId, assignee_id |-> task.assigneeId,
     attachments |-> OrElse(task.attachments, "[]"),
     updates |-> OrElse(task.updates, "[]"),
     percent_complete |-> Nullish(task.percentComplete, Null),
     created_at |-> task.createdAt, updated_at |-> task.updatedAt,
     deleted |-> Truthy(task._deleted)]

\* mapTaskToLocal with every field it copies
mapTaskToLocalAll(row) ==
    [id |-> row.id, title |-> row.title,
     description |-> OrElse(row.description, ""),
     status |-> row.status, priority |-> OrElse(row.priority, Absent),
     deadline |-> OrElse(row.deadline, Absent),
     completedAt |-> OrElse(row.completed_at, Absent),
     teamId |-> row.team_id, assigneeId |-> OrElse(row.assignee_id, Absent),
     attachments |-> OrElse(row.attachments, "[]"),
     updates |-> OrElse(row.updates, "[]"),
     percentComplete |-> Nullish(row.percent_complete, Absent),
     createdAt |-> row.created_at, updatedAt |-> row.updated_at,
     _deleted |-> row.deleted]

mapInvitationToRemote(inv) ==
    [id |-> inv.id, team_id |-> inv.teamId, sender_id |-> inv.senderId,
     receiver_id |-> inv.receiverId, status |-> inv.status,
     created_at |-> inv.createdAt, updated_at |-> inv.updatedAt,
     deleted |-> Truthy(inv._deleted)]

mapInvitationToLocal(row) ==
    [id |-> row.id, teamId |-> row.team_id, senderId |-> row.sender_id,
     receiverId |-> row.receiver_id, status |-> row.status,
     createdAt |-> row.created_at,
     updatedAt |-> OrElse(row.updated_at, row.created_at),
     _deleted |-> row.deleted]

mapNotificationToRemote(note) ==
    [id |-> note.id, user_id |-> note.userId, type |-> note.type,
     title |-> note.title, message |-> note.message, read |-> note.read,
     created_at |-> note.createdAt, updated_at |-> note.updatedAt,
     metadata |-> OrElse(note.metadata, "{}"),
     deleted |-> Truthy(note._deleted)]

mapNotificationToLocal(row) ==
    [id |-> row.id, userId |-> row.user_id, type |-> row.type,
     title |-> row.title, message |-> row.message, read |-> row.read,
     createdAt |-> row.created_at, updatedAt |-> row.updated_at,
     metadata |-> OrElse(row.metadata, "{}"), _deleted |-> row.deleted]

\* the five collections initDB replicates
Collections == {"users", "teams", "tasks", "invitations", "notifications"}

\* the mapper pair syncCollection is given for a collection
ToRemote(collection, doc) ==
    CASE collection = "users" -> mapUserToRemote(doc)
      [] collection = "teams" -> mapTeamToRemote(doc)
      [] collection = "tasks" -> mapTaskToRemoteAll(doc)
      [] collection = "invitations" -> mapInvitationToRemote(doc)
      [] collection = "notifications" -> mapNotificationToRemote(doc)

ToLocal(collection, row) ==
    CASE collection = "users" -> mapUserToLocal(row)
      [] collection = "teams" -> mapTeamToLocal(row)
      [] collection = "tasks" -> mapTaskToLocalAll(row)
      [] collection = "invitations" -> mapInvitationToLocal(row)
      [] collection = "notifications" -> mapNotificationToLocal(row)

\* documents valid for the schemas: required properties are present,
\* optional ones are missing, empty or filled
Optional(v) == {Absent, "", v}

Documents(collection) ==
    CASE collection = "users" ->
           [id : {"u1"}, email : {"e"}, username : {"n"}, name : {"N"},
            password : {"p", "q"}, phoneNumber : Optional("555"),
            createdAt : {"t1"}, _deleted : BOOLEAN]
      [] collection = "teams" ->
           [id : {"g1"}, name : {"N"}, description : Optional("d"),
            members : {"[]", "[m]"}, createdAt : {"t1"},
            updatedAt : {Absent, "t2"}, _deleted : BOOLEAN]
      [] collection = "tasks" ->
           [id : {"k1"}, title : {"T"}, description : Optional("d"),
            status : {"todo"}, priority : {Absent, "low"},
            deadline : {Absent, "t3"}, completedAt : {Absent, "t4"},
            teamId : {"g1"}, assigneeId : {Absent, "u1"},
            attachments : {"[]", "[a]"}, updates : {"[]", "[p]"},
            percentComplete : {Absent, "0", "50"},
            createdAt : {"t1"}, updatedAt : {"t1", "t2"},
            _deleted : BOOLEAN]
      [] collection = "invitations" ->
           [id : {"i1"}, teamId : {"g1"}, senderId : {"u1"},
            receiverId : {"u2"}, status : {"pending", "accepted"},
            createdAt : {"t1"}, updatedAt : {Absent, "t2"},
            _deleted : BOOLEAN]
      [] collection = "notifications" ->
           [id : {"n1"}, userId : {"u1"}, type : {"info"}, title : {"T"},
            message : {"m"}, read : BOOLEAN, createdAt : {"t1"},
            updatedAt : {Absent, "t2"}, metadata : {Absent, "{}", "{m}"},
            _deleted : BOOLEAN]

\* ------------------------------------------------------ remote gateway
\* a cursor filter that re-reads the whole clump of the cursor's timestamp
AfterCursorInclusive(row, lastUpdatedAt, lastId) ==
    row.updated_at >= lastUpdatedAt

\* a cursor filter on the timestamp alone
AfterCursorNaive(row, lastUpdatedAt, lastId) ==
    row.updated_at > lastUpdatedAt

\* .or(`updated_at.gt.T,and(updated_at.eq.T,id.gt.ID)`)
AfterCursor(row, lastUpdatedAt, lastId) ==
    \/ row.updated_at > lastUpdatedAt
    \/ row.updated_at = lastUpdatedAt /\ row.id > lastId

\* rows ordered by id alone
RowBeforeById(a, b) == a.id < b.id

\* .order('updated_at', asc).order('id', asc)
RowBefore(a, b) ==
    \/ a.updated_at < b.updated_at
    \/ a.updated_at = b.updated_at /\ a.id < b.id

\* the first n rows of the set S in ascending order
FirstRows(S, n) ==
    CHOOSE seq \in
        {[j \in 1..n |-> CHOOSE x \in S : pos[x] = j - 1] :
            pos \in {[x \in S |-> Cardinality({y \in S : RowBefore(y, x)})]}} :
        TRUE

\* the query without its .limit(batchSize)
SelectRowsUnlimited(table, lastUpdatedAt, lastId, batchSize) ==
    CHOOSE data \in
        {FirstRows(match, Cardinality(match)) :
            match \in {{table[k] : k \in {k \in DOMAIN table :
                          AfterCursor(table[k], lastUpdatedAt, lastId)}}}} :
        TRUE

\* supabase.from(t).select('*').or(..).order(..).order(..).limit(batchSize)
SelectRows(table, lastUpdatedAt, lastId, batchSize) ==
    CHOOSE data \in
        {FirstRows(match, Min(batchSize, Cardinality(match))) :
            match \in {{table[k] : k \in {k \in DOMAIN table :
                          AfterCursor(table[k], lastUpdatedAt, lastId)}}}} :
        TRUE

\* an upsert that removes the rows sent with deleted = true
UpsertRowsHardDelete(table, rows) ==
    LET ids == {rows[j].id : j \in DOMAIN rows}
        gone == {rows[j].id : j \in {k \in DOMAIN rows : rows[k].deleted}}
        last(i) == CHOOSE j \in DOMAIN rows :
                     /\ rows[j].id = i
                     /\ \A k \in DOMAIN rows : rows[k].id = i => k <= j
    IN  [i \in (DOMAIN table \cup ids) \ gone |->
            IF i \in ids THEN rows[last(i)] ELSE table[i]]

\* supabase.from(t).upsert(rows, { onConflict: 'id' }): insert or replace by id
UpsertRows(table, rows) ==
    LET ids == {rows[j].id : j \in DOMAIN rows}
        last(i) == CHOOSE j \in DOMAIN rows :
                     /\ rows[j].id = i
                     /\ \A k \in DOMAIN rows : rows[k].id = i => k <= j
    IN  [i \in DOMAIN table \cup ids |->
            IF i \in ids THEN rows[last(i)] ELSE table[i]]

\* ------------------------------------------------- pullHandler (pure part)
\* lastUpdatedAt / lastId of sync.ts:34-35
LastUpdatedAt(checkpoint) ==
    IF checkpoint.isNull THEN Epoch ELSE checkpoint.updated_at

LastId(checkpoint) ==
    IF checkpoint.isNull THEN MinUUID ELSE checkpoint.id

\* a checkpoint that falls back to null after an empty batch
NewCheckpointOrNull(checkpoint, data) ==
    IF Len(data) > 0
    THEN Checkpoint(data[Len(data)].updated_at, data[Len(data)].id)
    ELSE NullCheckpoint

\* sync.ts:62-69
NewCheckpoint(checkpoint, data) ==
    IF Len(data) > 0
    THEN Checkpoint(data[Len(data)].updated_at, data[Len(data)].id)
    ELSE checkpoint

\* a pullHandler that hands on full batches only
PullResultFullOnly(checkpoint, data) ==
    IF Len(data) < PullBatchSize
    THEN [documents |-> <<>>, checkpoint |-> checkpoint]
    ELSE [documents |-> [j \in DOMAIN data |-> mapToLocal(data[j])],
          checkpoint |-> NewCheckpoint(checkpoint, data)]

\* what pullHandler returns when the query answers with `data`
PullResult(checkpoint, data) ==
    [documents |-> [j \in DOMAIN data |-> mapToLocal(data[j])],
     checkpoint |-> NewCheckpoint(checkpoint, data)]

\* the successful path of pullHandler(checkpoint, batchSize) against `table`
PullHandler(table, checkpoint, batchSize) ==
    PullResult(checkpoint,
               SelectRows(table, LastUpdatedAt(checkpoint), LastId(checkpoint),
                          batchSize))

\* ------------------------------------------------ checkpoint comparison
\* a <= b in (updated_at, id) order; the null checkpoint is below every other
CkptLeq(a, b) ==
    \/ a.isNull
    \/ /\ ~b.isNull
       /\ \/ a.updated_at < b.updated_at
          \/ a.updated_at = b.updated_at /\ a.id <= b.id

\* RxDB stackCheckpoints: Object.assign({}, previous, next)
StackCheckpoints(prev, next) ==
    IF next.isNull THEN prev
    ELSE IF prev.isNull THEN next
    ELSE [isNull |-> FALSE,
          updated_at |-> IF next.updated_at = Undefined
                         THEN prev.updated_at ELSE next.updated_at,
          id |-> IF next.id = Undefined THEN prev.id ELSE next.id]

\* --------------------------------------------------- realtime callback
\* a callback that emits an item for every payload
RealtimeItemsUnfiltered(payload) ==
    <<[documents |-> <<mapToLocal(payload.new)>>,
       checkpoint |-> Checkpoint(payload.new.updated_at, Undefined)]>>

\* the stream item the postgres_changes callback emits for a payload
\* (<<>> when it emits nothing)
RealtimeItems(payload) ==
    IF payload.errors THEN <<>>
    ELSE IF payload.eventType \in {"INSERT", "UPDATE"}
    THEN <<[documents |-> <<mapToLocal(payload.new)>>,
            checkpoint |-> Checkpoint(payload.new.updated_at, Undefined)]>>
    ELSE <<>>

\* the payload Supabase Realtime sends for a row written by an upsert
ChangePayload(table, row) ==
    [eventType |-> IF row.id \in DOMAIN table THEN "UPDATE" ELSE "INSERT",
     new |-> row, errors |-> FALSE]

\* ------------------------------------------------------ error handling
ErrorKinds == {"Unreachable", "Rejected"}

\* err.message includes 'Failed to fetch' or err.name === 'TypeError'
IsOfflineError(kind) == kind = "Unreachable"

\* the catch block of pullHandler / pushHandler
HandlerCatch(kind) ==
    [log |-> IF IsOfflineError(kind) THEN "debug" ELSE "error",
     syncError |-> TRUE,
     rethrown |-> TRUE]

\* replicationState.error$.subscribe(...): runs for every error RxDB reports
ErrorSubscription(thrown) ==
    [log |-> IF thrown THEN "error" ELSE "none",
     syncError |-> thrown]

NoFailure ==
    [src |-> "none", kind |-> "none", rethrown |-> FALSE, logs |-> {},
     syncErrors |-> 0]

\* everything one failed handler call of `src` makes visible
Failure(src, kind) ==
    LET c == HandlerCatch(kind)
        s == ErrorSubscription(c.rethrown)
    IN  [src |-> src, kind |-> kind, rethrown |-> c.rethrown,
         logs |-> {c.log, s.log} \ {"none"},
         syncErrors |-> (IF c.syncError THEN 1 ELSE 0)
                        + (IF s.syncError THEN 1 ELSE 0)]

\* ------------------------------------------------------- waitForOnline
\* a gate that lets every handler through
AfterGateOpen(r, busy) == busy

\* where a handler stands after `await waitForOnline()` was entered
AfterGate(r, busy) == IF online[r] THEN busy ELSE "waiting"

\* ---------------------------------------------- RxDB replication state
\* a store from which a document that arrives again with the content already
\* stored is removed
ApplyFromMasterOnce(store, dirtyIds, documents) ==
    LET take == {j \in DOMAIN documents : documents[j].id \notin dirtyIds}
        dup == {documents[j].id : j \in {j \in take :
                   /\ documents[j].id \in DOMAIN store
                   /\ store[documents[j].id] = documents[j]}}
        ids == {documents[j].id : j \in take} \ dup
        pos(i) == CHOOSE j \in take : documents[j].id = i
    IN  [i \in (DOMAIN store \cup ids) \ dup |->
            IF i \in ids THEN documents[pos(i)] ELSE store[i]]

\* documents from the master are written to the local collection unless the
\* local document has changes that are not pushed yet
ApplyFromMaster(store, dirtyIds, documents) ==
    LET take == {j \in DOMAIN documents : documents[j].id \notin dirtyIds}
        ids == {documents[j].id : j \in take}
        pos(i) == CHOOSE j \in take :
                    /\ documents[j].id = i
                    /\ \A k \in take : documents[k].id = i => k <= j
    IN  [i \in DOMAIN store \cup ids |->
            IF i \in ids THEN documents[pos(i)] ELSE store[i]]

\* the rows a pullHandler call can be answered with: none when the cursor
\* cannot be parsed by the remote (id.gt.undefined on a uuid column)
QueryValid(checkpoint) == checkpoint.isNull \/ checkpoint.id # Undefined

\* RxDB starts a pull pass (autoStart, reSync): pullHandler(checkpoint, 50)
PullInvoke(r) ==
    /\ ~stopped[r]
    /\ resync[r]
    /\ pullPc[r] = "idle"
    /\ resync' = [resync EXCEPT ![r] = FALSE]
    /\ pullGiven' = [pullGiven EXCEPT ![r] = ckpt[r]]
    /\ pullPc' = [pullPc EXCEPT ![r] = AfterGate(r, "querying")]
    /\ UNCHANGED <<remote, local, dirty, ckpt, online, pushPc, pushRows, rt,
                   stopped, cancelPc, pollArmed, channelOn, lastFailure,
                   writes, faults>>

\* the query answers; RxDB writes the documents and the checkpoint and, after
\* a full batch, calls pullHandler again
PullQueryOk(r) ==
    /\ pullPc[r] = "querying"
    /\ QueryValid(pullGiven[r])
    /\ \E res \in {PullHandler(remote, pullGiven[r], PullBatchSize)} :
       LET n == Len(res.documents)
           next == StackCheckpoints(ckpt[r], res.checkpoint)
       IN  IF stopped[r]
           THEN /\ pullPc' = [pullPc EXCEPT ![r] = "idle"]
                /\ UNCHANGED <<local, ckpt, pullGiven>>
           ELSE /\ local' = [local EXCEPT
                               ![r] = ApplyFromMaster(@, dirty[r], res.documents)]
                /\ ckpt' = [ckpt EXCEPT ![r] = IF n = 0 THEN @ ELSE next]
                /\ IF n = PullBatchSize
                   THEN /\ pullGiven' = [pullGiven EXCEPT ![r] = next]
                        /\ pullPc' = [pullPc EXCEPT
                                        ![r] = AfterGate(r, "querying")]
                   ELSE /\ pullPc' = [pullPc EXCEPT ![r] = "idle"]
                        /\ UNCHANGED pullGiven
    /\ UNCHANGED <<remote, dirty, online, pushPc, pushRows, resync, rt,
                   stopped, cancelPc, pollArmed, channelOn, lastFailure,
                   writes, faults>>

\* the errors a remote call of replica r can end with in this state
CanFail(r, kind, valid) ==
    \/ kind = "Unreachable" /\ ~online[r]
    \/ kind = "Rejected" /\ ~valid
    \/ faults < MaxFaults

FaultCost(r, kind, valid) ==
    IF (kind = "Unreachable" /\ ~online[r]) \/ (kind = "Rejected" /\ ~valid)
    THEN 0 ELSE 1

\* the query fails: catch block, rethrow, RxDB reports it and arms the retry
PullQueryFail(r) ==
    /\ pullPc[r] = "querying"
    /\ \E kind \in ErrorKinds :
         /\ CanFail(r, kind, QueryValid(pullGiven[r]))
         /\ faults' = faults + FaultCost(r, kind, QueryValid(pullGiven[r]))
         /\ lastFailure' = [lastFailure EXCEPT ![r] = Failure("pull", kind)]
    /\ pullPc' = [pullPc EXCEPT ![r] = IF stopped[r] THEN "idle" ELSE "retry"]
    /\ UNCHANGED <<remote, local, dirty, ckpt, online, pushPc, pushRows, resync,
                   rt, stopped, cancelPc, pollArmed, channelOn, pullGiven,
                   writes>>

\* retryTime (5000 ms) elapsed: RxDB calls pullHandler again
PullRetry(r) ==
    /\ pullPc[r] = "retry"
    /\ pullPc' = [pullPc EXCEPT
                    ![r] = IF stopped[r] THEN "idle" ELSE AfterGate(r, "querying")]
    /\ UNCHANGED <<remote, local, dirty, ckpt, online, pushPc, pushRows, resync,
                   rt, stopped, cancelPc, pollArmed, channelOn, lastFailure,
                   pullGiven, writes, faults>>

\* ---------------------------------------------------------- push side
\* the local documents RxDB hands to pushHandler, lowest id first, at most
\* PushBatchSize of them
DirtyRows(r) ==
    LET ids == dirty[r]
        rank == [i \in ids |-> Cardinality({k \in ids : k < i})]
        n == Min(PushBatchSize, Cardinality(ids))
    IN  [j \in 1..n |-> local[r][CHOOSE i \in ids : rank[i] = j - 1]]

\* only the first document of the batch is sent
RowsToUpsertFirst(rows) ==
    [j \in DOMAIN rows \cap {1} |-> mapToRemote(rows[j])]

\* rows.map(r => mapToRemote(r.newDocumentState))
RowsToUpsert(rows) == [j \in DOMAIN rows |-> mapToRemote(rows[j])]

\* every id of a pushed batch, changed meanwhile or not
PushedRegardless(r, rows) == {rows[j].id : j \in DOMAIN rows}

\* the ids of a pushed batch whose local document did not change meanwhile
Pushed(r, rows) ==
    {rows[j].id : j \in {j \in DOMAIN rows : local[r][rows[j].id] = rows[j]}}

\* the first n payloads of a set, lowest (id, updated_at, title) first
Oldest(S, n) ==
    LET before(a, b) ==
            \/ a.new.id < b.new.id
            \/ a.new.id = b.new.id /\ a.new.updated_at < b.new.updated_at
            \/ /\ a.new.id = b.new.id /\ a.new.updated_at = b.new.updated_at
               /\ a.new.title < b.new.title
            \/ /\ a.new.id = b.new.id /\ a.new.updated_at = b.new.updated_at
               /\ a.new.title = b.new.title /\ ~a.new.deleted /\ b.new.deleted
    IN  {x \in S : Cardinality({y \in S : before(y, x)}) < n}

\* realtime payloads for the rows of one upsert, sent to every subscriber;
\* a subscriber with MaxInflight payloads on their way loses the new ones
Broadcast(table, rows) ==
    [q \in Replicas |->
        IF channelOn[q]
        THEN rt[q] \cup
             Oldest({ChangePayload(table, rows[j]) : j \in DOMAIN rows} \ rt[q],
                    MaxInflight - Cardinality(rt[q]))
        ELSE rt[q]]

\* RxDB sees unpushed local changes: pushHandler(rows)
PushInvoke(r) ==
    /\ ~stopped[r]
    /\ pushPc[r] = "idle"
    /\ dirty[r] # {}
    /\ pushRows' = [pushRows EXCEPT ![r] = DirtyRows(r)]
    /\ pushPc' = [pushPc EXCEPT ![r] = AfterGate(r, "upserting")]
    /\ UNCHANGED <<remote, local, dirty, ckpt, online, pullPc, resync, rt,
                   stopped, cancelPc, pollArmed, channelOn, lastFailure,
                   pullGiven, writes, faults>>

\* the upsert succeeds; pushHandler returns [] (no conflicts)
PushUpsertOk(r) ==
    /\ pushPc[r] = "upserting"
    /\ LET rows == RowsToUpsert(pushRows[r])
       IN  /\ remote' = UpsertRows(remote, rows)
           /\ rt' = Broadcast(remote, rows)
    /\ dirty' = [dirty EXCEPT
                   ![r] = IF stopped[r] THEN @ ELSE @ \ Pushed(r, pushRows[r])]
    /\ pushPc' = [pushPc EXCEPT ![r] = "idle"]
    /\ pushRows' = [pushRows EXCEPT ![r] = <<>>]
    /\ UNCHANGED <<local, ckpt, online, pullPc, resync, stopped, cancelPc,
                   pollArmed, channelOn, lastFailure, pullGiven, writes, faults>>

\* the upsert fails: catch block, rethrow, RxDB reports it and arms the retry
PushUpsertFail(r) ==
    /\ pushPc[r] = "upserting"
    /\ \E kind \in ErrorKinds :
         /\ CanFail(r, kind, TRUE)
         /\ faults' = faults + FaultCost(r, kind, TRUE)
         /\ lastFailure' = [lastFailure EXCEPT ![r] = Failure("push", kind)]
    /\ pushPc' = [pushPc EXCEPT ![r] = IF stopped[r] THEN "idle" ELSE "retry"]
    /\ pushRows' = [pushRows EXCEPT ![r] = IF stopped[r] THEN <<>> ELSE @]
    /\ UNCHANGED <<remote, local, dirty, ckpt, online, pullPc, resync, rt,
                   stopped, cancelPc, pollArmed, channelOn, pullGiven, writes>>

\* retryTime elapsed: RxDB calls pushHandler again with the same rows
PushRetry(r) ==
    /\ pushPc[r] = "retry"
    /\ pushPc' = [pushPc EXCEPT
                    ![r] = IF stopped[r] THEN "idle" ELSE AfterGate(r, "upserting")]
    /\ pushRows' = [pushRows EXCEPT ![r] = IF stopped[r] THEN <<>> ELSE @]
    /\ UNCHANGED <<remote, local, dirty, ckpt, online, pullPc, resync, rt,
                   stopped, cancelPc, pollArmed, channelOn, lastFailure,
                   pullGiven, writes, faults>>

\* ------------------------------------------------------ realtime side
\* a payload reaches the postgres_changes callback; RxDB takes the stream
\* item once no pull pass is running: documents and checkpoint are persisted
RealtimeDeliver(r) ==
    /\ channelOn[r]
    /\ pullPc[r] = "idle"
    /\ \E payload \in rt[r] :
         LET items == RealtimeItems(payload)
         IN  /\ rt' = [rt EXCEPT ![r] = @ \ {payload}]
             /\ IF stopped[r] \/ items = <<>>
                THEN UNCHANGED <<local, ckpt>>
                ELSE /\ local' = [local EXCEPT
                                    ![r] = ApplyFromMaster(@, dirty[r],
                                                           items[1].documents)]
                     /\ ckpt' = [ckpt EXCEPT
                                   ![r] = StackCheckpoints(@, items[1].checkpoint)]
    /\ UNCHANGED <<remote, dirty, online, pullPc, pushPc, pushRows, resync,
                   stopped, cancelPc, pollArmed, channelOn, lastFailure,
                   pullGiven, writes, faults>>

\* what a payload with errors makes visible: the callback writes its
\* console.log line and returns
RealtimeFailure ==
    [src |-> "realtime", kind |-> "Rejected", rethrown |-> FALSE,
     logs |-> {"log"}, syncErrors |-> 0]

\* a payload of the channel with payload.errors set
ErrorPayload ==
    [eventType |-> "UPDATE",
     new |-> [id |-> 1, title |-> 0, updated_at |-> 1, deleted |-> FALSE],
     errors |-> TRUE]

\* the channel delivers a payload that carries errors
RealtimeError(r) ==
    /\ channelOn[r]
    /\ faults < MaxFaults
    /\ faults' = faults + 1
    /\ RealtimeItems(ErrorPayload) = <<>>
    /\ lastFailure' = [lastFailure EXCEPT ![r] = RealtimeFailure]
    /\ UNCHANGED <<remote, local, dirty, ckpt, online, pullPc, pushPc, pushRows,
                   resync, rt, stopped, cancelPc, pollArmed, channelOn,
                   pullGiven, writes>>

\* realtime delivery is best-effort: a payload is lost
RealtimeDrop(r) ==
    /\ \E payload \in rt[r] : rt' = [rt EXCEPT ![r] = @ \ {payload}]
    /\ UNCHANGED <<remote, local, dirty, ckpt, online, pullPc, pushPc, pushRows,
                   resync, stopped, cancelPc, pollArmed, channelOn, lastFailure,
                   pullGiven, writes, faults>>

\* ------------------------------------------------------- connectivity
\* the window 'online' event: every handler suspended in waitForOnline resumes
GoOnline(r) ==
    /\ ~online[r]
    /\ online' = [online EXCEPT ![r] = TRUE]
    /\ pullPc' = [pullPc EXCEPT ![r] = IF @ = "waiting" THEN "querying" ELSE @]
    /\ pushPc' = [pushPc EXCEPT ![r] = IF @ = "waiting" THEN "upserting" ELSE @]
    /\ UNCHANGED <<remote, local, dirty, ckpt, pushRows, resync, rt, stopped,
                   cancelPc, pollArmed, channelOn, lastFailure, pullGiven,
                   writes, faults>>

GoOffline(r) ==
    /\ online[r]
    /\ faults < MaxFaults
    /\ faults' = faults + 1
    /\ online' = [online EXCEPT ![r] = FALSE]
    /\ UNCHANGED <<remote, local, dirty, ckpt, pullPc, pushPc, pushRows, resync,
                   rt, stopped, cancelPc, pollArmed, channelOn, lastFailure,
                   pullGiven, writes>>

\* ------------------------------------------------------ poll interval
\* setInterval callback: if (navigator.onLine && !isStopped()) reSync()
PollTick(r) ==
    /\ pollArmed[r]
    /\ resync' = [resync EXCEPT
                    ![r] = IF online[r] /\ ~stopped[r] THEN TRUE ELSE @]
    /\ UNCHANGED <<remote, local, dirty, ckpt, online, pullPc, pushPc, pushRows,
                   rt, stopped, cancelPc, pollArmed, channelOn, lastFailure,
                   pullGiven, writes, faults>>

\* ------------------------------------------------------------- cancel
\* replicationState.cancel() up to its first await:
\* clearInterval(pollInterval); await supabase.removeChannel(channel)
CancelCall(r) ==
    /\ cancelPc[r] = "none"
    /\ Cardinality({q \in Replicas : cancelPc[q] \in {"removing", "done"}})
         < MaxCancels
    /\ pollArmed' = [pollArmed EXCEPT ![r] = FALSE]
    /\ cancelPc' = [cancelPc EXCEPT ![r] = "removing"]
    /\ UNCHANGED <<remote, local, dirty, ckpt, online, pullPc, pushPc, pushRows,
                   resync, rt, stopped, channelOn, lastFailure, pullGiven,
                   writes, faults>>

\* a cancel that removes every channel of the client and stops every
\* replication
CancelFinishAll(r) ==
    /\ cancelPc[r] = "removing"
    /\ channelOn' = [q \in Replicas |-> FALSE]
    /\ stopped' = [q \in Replicas |-> TRUE]
    /\ cancelPc' = [cancelPc EXCEPT ![r] = "done"]
    /\ UNCHANGED <<remote, local, dirty, ckpt, online, pullPc, pushPc, pushRows,
                   resync, rt, pollArmed, lastFailure, pullGiven, writes, faults>>

\* removeChannel resolved; originalCancel() stops the RxDB replication
CancelFinish(r) ==
    /\ cancelPc[r] = "removing"
    /\ channelOn' = [channelOn EXCEPT ![r] = FALSE]
    /\ stopped' = [stopped EXCEPT ![r] = TRUE]
    /\ cancelPc' = [cancelPc EXCEPT ![r] = "done"]
    /\ UNCHANGED <<remote, local, dirty, ckpt, online, pullPc, pushPc, pushRows,
                   resync, rt, pollArmed, lastFailure, pullGiven, writes, faults>>

\* supabase.removeChannel(channel) rejects: the await in the inner wrapper
\* throws, originalCancel() is not reached and cancel() rejects; the channel
\* is left subscribed or not
CancelReject(r) ==
    /\ cancelPc[r] = "removing"
    /\ faults < MaxFaults
    /\ faults' = faults + 1
    /\ \E on \in {channelOn[r], FALSE} :
         channelOn' = [channelOn EXCEPT ![r] = on]
    /\ cancelPc' = [cancelPc EXCEPT ![r] = "failed"]
    /\ UNCHANGED <<remote, local, dirty, ckpt, online, pullPc, pushPc, pushRows,
                   resync, rt, stopped, pollArmed, lastFailure, pullGiven,
                   writes>>

\* cancel() is called once more after an earlier call returned
CancelAgain(r) ==
    /\ cancelPc[r] \in {"done", "failed"}
    /\ pollArmed' = [pollArmed EXCEPT ![r] = FALSE]
    /\ cancelPc' = [cancelPc EXCEPT ![r] = "removing"]
    /\ UNCHANGED <<remote, local, dirty, ckpt, online, pullPc, pushPc, pushRows,
                   resync, rt, stopped, channelOn, lastFailure, pullGiven,
                   writes, faults>>

\* ------------------------------------------------------- local writes
\* ids nobody has used yet (uuidv4() yields a fresh id)
FreshIds ==
    {i \in Ids : /\ i \notin DOMAIN remote
                 /\ \A q \in Replicas : i \notin DOMAIN local[q]}

\* the application inserts, updates or soft-deletes a document with
\* updatedAt: new Date().toISOString(); the clock of a device has advanced
\* since it wrote or received the version it updates
LocalWrite(r) ==
    /\ writes < MaxWrites
    /\ \E i \in Ids, t \in Times, del \in BOOLEAN :
         /\ \/ i \in FreshIds /\ ~del
            \/ /\ i \in DOMAIN local[r]
               /\ ~local[r][i]._deleted
               /\ t > local[r][i].updatedAt
         /\ local' = [local EXCEPT
                        ![r] = [k \in DOMAIN @ \cup {i} |->
                                  IF k = i
                                  THEN [id |-> i, title |-> writes + 1,
                                        updatedAt |-> t, _deleted |-> del]
                                  ELSE @[k]]]
         /\ dirty' = [dirty EXCEPT ![r] = @ \cup {i}]
    /\ writes' = writes + 1
    /\ UNCHANGED <<remote, ckpt, online, pullPc, pushPc, pushRows, resync, rt,
                   stopped, cancelPc, pollArmed, channelOn, lastFailure,
                   pullGiven, faults>>

\* ------------------------------------------------------- initial state
ReplInit ==
    /\ local = [r \in Replicas |-> EmptyTable]
    /\ dirty = [r \in Replicas |-> {}]
    /\ ckpt = [r \in Replicas |-> NullCheckpoint]
    /\ online = [r \in Replicas |-> TRUE]
    /\ pullPc = [r \in Replicas |-> "idle"]
    /\ pushPc = [r \in Replicas |-> "idle"]
    /\ pushRows = [r \in Replicas |-> <<>>]
    /\ resync = [r \in Replicas |-> TRUE]
    /\ rt = [r \in Replicas |-> {}]
    /\ stopped = [r \in Replicas |-> FALSE]
    /\ cancelPc = [r \in Replicas |-> "none"]
    /\ pollArmed = [r \in Replicas |-> TRUE]
    /\ channelOn = [r \in Replicas |-> TRUE]
    /\ lastFailure = [r \in Replicas |-> NoFailure]
    /\ pullGiven = [r \in Replicas |-> NullCheckpoint]
    /\ writes = 0
    /\ faults = 0

HarnessIdle ==
    /\ hCkpt = NullCheckpoint
    /\ hBatch = 0
    /\ hLog = <<>>
    /\ hWrites = 0

\* a table both replicas are in sync with: empty, or one row written earlier
SeedRow == [id |-> 1, title |-> 0, updated_at |-> 1, deleted |-> FALSE]

Init ==
    /\ ReplInit
    /\ HarnessIdle
    /\ remote = EmptyTable

InitSeeded ==
    /\ HarnessIdle
    /\ remote = [i \in {1} |-> SeedRow]
    /\ local = [r \in Replicas |-> [i \in {1} |-> mapToLocal(SeedRow)]]
    /\ dirty = [r \in Replicas |-> {}]
    /\ ckpt = [r \in Replicas |-> Checkpoint(SeedRow.updated_at, SeedRow.id)]
    /\ online = [r \in Replicas |-> TRUE]
    /\ pullPc = [r \in Replicas |-> "idle"]
    /\ pushPc = [r \in Replicas |-> "idle"]
    /\ pushRows = [r \in Replicas |-> <<>>]
    /\ resync = [r \in Replicas |-> TRUE]
    /\ rt = [r \in Replicas |-> {}]
    /\ stopped = [r \in Replicas |-> FALSE]
    /\ cancelPc = [r \in Replicas |-> "none"]
    /\ pollArmed = [r \in Replicas |-> TRUE]
    /\ channelOn = [r \in Replicas |-> TRUE]
    /\ lastFailure = [r \in Replicas |-> NoFailure]
    /\ pullGiven = [r \in Replicas |-> NullCheckpoint]
    /\ writes = 0
    /\ faults = 0

\* the replication of one device while the network and the remote are healthy
SyncStep(r) ==
    \/ PullInvoke(r)
    \/ PullQueryOk(r)
    \/ PushInvoke(r)
    \/ PushUpsertOk(r)
    \/ RealtimeDeliver(r)
    \/ RealtimeDrop(r)
    \/ PollTick(r)
    \/ LocalWrite(r)

\* connectivity loss, failing remote calls, retries and cancellation
FaultStep(r) ==
    \/ PullQueryFail(r)
    \/ PullRetry(r)
    \/ PushUpsertFail(r)
    \/ PushRetry(r)
    \/ RealtimeError(r)
    \/ GoOnline(r)
    \/ GoOffline(r)
    \/ CancelCall(r)
    \/ CancelFinish(r)

\* NumReplicas devices replicate the same table
Next == (\E r \in Replicas : SyncStep(r)) /\ UNCHANGED harnessVars

Spec == (Init \/ InitSeeded) /\ [][Next]_vars

\* one device replicates; the others never started their replication
Started == {1}

NotStarted(r) ==
    /\ stopped[r]
    /\ ~channelOn[r]
    /\ ~pollArmed[r]
    /\ cancelPc[r] = "off"

\* the state of the devices when only those of Started replicate
StartedInit ==
    /\ local = [r \in Replicas |-> EmptyTable]
    /\ dirty = [r \in Replicas |-> {}]
    /\ ckpt = [r \in Replicas |-> NullCheckpoint]
    /\ online = [r \in Replicas |-> TRUE]
    /\ pullPc = [r \in Replicas |-> "idle"]
    /\ pushPc = [r \in Replicas |-> "idle"]
    /\ pushRows = [r \in Replicas |-> <<>>]
    /\ resync = [r \in Replicas |-> r \in Started]
    /\ rt = [r \in Replicas |-> {}]
    /\ stopped = [r \in Replicas |-> r \notin Started]
    /\ cancelPc = [r \in Replicas |-> IF r \in Started THEN "none" ELSE "off"]
    /\ pollArmed = [r \in Replicas |-> r \in Started]
    /\ channelOn = [r \in Replicas |-> r \in Started]
    /\ lastFailure = [r \in Replicas |-> NoFailure]
    /\ pullGiven = [r \in Replicas |-> NullCheckpoint]
    /\ writes = 0
    /\ faults = 0

InitFaults ==
    /\ HarnessIdle
    /\ remote \in {EmptyTable, [i \in {1} |-> SeedRow]}
    /\ StartedInit

NextFaults ==
    (\E r \in Started : SyncStep(r) \/ FaultStep(r)) /\ UNCHANGED harnessVars

SpecFaults == InitFaults /\ [][NextFaults]_vars

\* the application cancels the replication of a healthy device, any number
\* of times, and removeChannel may reject
CancelStep(r) ==
    \/ CancelCall(r)
    \/ CancelFinish(r)
    \/ CancelReject(r)
    \/ CancelAgain(r)

NextCancel ==
    (\E r \in Started : SyncStep(r) \/ CancelStep(r)) /\ UNCHANGED harnessVars

SpecCancel == InitFaults /\ [][NextCancel]_vars

\* ------------------------------------------- events of the realtime channel
\* The channel is subscribed with event '*': it delivers INSERT, UPDATE and
\* DELETE payloads of the table, and payloads that carry errors.
DeletePayload ==
    [eventType |-> "DELETE",
     new |-> [id |-> Undefined, title |-> Undefined, updated_at |-> Undefined,
              deleted |-> FALSE],
     errors |-> FALSE]

\* every subscriber with room gets the payload
Deliverable(payload) ==
    [q \in Replicas |->
        IF channelOn[q] /\ Cardinality(rt[q]) < MaxInflight
        THEN rt[q] \cup {payload} ELSE rt[q]]

\* another client upserts a row: an INSERT or UPDATE payload, with errors
\* set when the server could not build the change
RemoteUpsert ==
    /\ hWrites < MaxEvents
    /\ hWrites' = hWrites + 1
    /\ \E i \in Ids, t \in PullTimes, del \in BOOLEAN, err \in BOOLEAN :
         \E row \in {[id |-> i, title |-> hWrites + 1, updated_at |-> t,
                       deleted |-> del]} :
            /\ remote' = UpsertRows(remote, <<row>>)
            /\ rt' = Deliverable([ChangePayload(remote, row)
                                    EXCEPT !.errors = err])
    /\ UNCHANGED <<local, dirty, ckpt, online, pullPc, pushPc, pushRows, resync,
                   stopped, cancelPc, pollArmed, channelOn, lastFailure,
                   pullGiven, writes, faults, hCkpt, hBatch, hLog>>

\* a row is removed from the table by other means than this program
\* (which never deletes): a DELETE payload
RemoteDelete ==
    /\ hWrites < MaxEvents
    /\ hWrites' = hWrites + 1
    /\ \E i \in DOMAIN remote :
         remote' = [k \in DOMAIN remote \ {i} |-> remote[k]]
    /\ rt' = Deliverable(DeletePayload)
    /\ UNCHANGED <<local, dirty, ckpt, online, pullPc, pushPc, pushRows, resync,
                   stopped, cancelPc, pollArmed, channelOn, lastFailure,
                   pullGiven, writes, faults, hCkpt, hBatch, hLog>>

RealtimeStep(r) ==
    /\ \/ RealtimeDeliver(r)
       \/ PullInvoke(r)
       \/ PullQueryOk(r)
       \/ PollTick(r)
    /\ UNCHANGED harnessVars

NextRealtime ==
    \/ RemoteUpsert
    \/ RemoteDelete
    \/ \E r \in Started : RealtimeStep(r)

SpecRealtime == InitFaults /\ [][NextRealtime]_vars

\* ------------------------------------- several collections on one device
\* The instances are the syncCollection calls of one device, each for its
\* own collection and table; the tables hold the same rows and nobody
\* writes, the connectivity is the device's.
InitCollections ==
    /\ HarnessIdle
    /\ remote \in {EmptyTable, [i \in {1} |-> SeedRow]}
    /\ ReplInit

\* navigator.onLine turns false for every collection of the device
DeviceOffline ==
    /\ \A r \in Replicas : online[r]
    /\ faults < MaxFaults
    /\ faults' = faults + 1
    /\ online' = [r \in Replicas |-> FALSE]
    /\ UNCHANGED <<remote, local, dirty, ckpt, pullPc, pushPc, pushRows, resync,
                   rt, stopped, cancelPc, pollArmed, channelOn, lastFailure,
                   pullGiven, writes>>

\* the window 'online' event: the listeners of every collection run
DeviceOnline ==
    /\ \A r \in Replicas : ~online[r]
    /\ online' = [r \in Replicas |-> TRUE]
    /\ pullPc' = [r \in Replicas |->
                    IF pullPc[r] = "waiting" THEN "querying" ELSE pullPc[r]]
    /\ pushPc' = [r \in Replicas |->
                    IF pushPc[r] = "waiting" THEN "upserting" ELSE pushPc[r]]
    /\ UNCHANGED <<remote, local, dirty, ckpt, pushRows, resync, rt, stopped,
                   cancelPc, pollArmed, channelOn, lastFailure, pullGiven,
                   writes, faults>>

CollectionStep(r) ==
    \/ PullInvoke(r)
    \/ PullQueryOk(r)
    \/ PullQueryFail(r)
    \/ PullRetry(r)
    \/ PollTick(r)
    \/ RealtimeError(r)
    \/ CancelCall(r)
    \/ CancelFinish(r)

NextCollections ==
    /\ \/ \E r \in Replicas : CollectionStep(r)
       \/ DeviceOffline
       \/ DeviceOnline
    /\ UNCHANGED harnessVars

SpecCollections == InitCollections /\ [][NextCollections]_vars

\* ------------------------------------------------- the host: initDB
\* Nothing replicates before initDB has called syncCollection. hLog holds
\* one record per syncCollection call made so far, in call order; call
\* number r works with the state of index r.
HostInit ==
    /\ remote \in {EmptyTable, [i \in {1} |-> SeedRow]}
    /\ local = [r \in Replicas |-> EmptyTable]
    /\ dirty = [r \in Replicas |-> {}]
    /\ ckpt = [r \in Replicas |-> NullCheckpoint]
    /\ online = [r \in Replicas |-> TRUE]
    /\ pullPc = [r \in Replicas |-> "idle"]
    /\ pushPc = [r \in Replicas |-> "idle"]
    /\ pushRows = [r \in Replicas |-> <<>>]
    /\ resync = [r \in Replicas |-> FALSE]
    /\ rt = [r \in Replicas |-> {}]
    /\ stopped = [r \in Replicas |-> TRUE]
    /\ cancelPc = [r \in Replicas |-> "off"]
    /\ pollArmed = [r \in Replicas |-> FALSE]
    /\ channelOn = [r \in Replicas |-> FALSE]
    /\ lastFailure = [r \in Replicas |-> NoFailure]
    /\ pullGiven = [r \in Replicas |-> NullCheckpoint]
    /\ writes = 0
    /\ faults = 0
    /\ HarnessIdle

\* syncCollection runs to its return: the channel is subscribed, the
\* replication is created with autoStart, the cancel wrappers and the poll
\* interval are set up
SyncCollectionReturns(r) ==
    /\ r = Len(hLog) + 1
    /\ cancelPc[r] = "off"
    /\ channelOn' = [channelOn EXCEPT ![r] = TRUE]
    /\ stopped' = [stopped EXCEPT ![r] = FALSE]
    /\ resync' = [resync EXCEPT ![r] = TRUE]
    /\ pollArmed' = [pollArmed EXCEPT ![r] = TRUE]
    /\ cancelPc' = [cancelPc EXCEPT ![r] = "none"]
    /\ hLog' = Append(hLog, [call |-> r, outcome |-> "started"])
    /\ UNCHANGED <<remote, local, dirty, ckpt, online, pullPc, pushPc, pushRows, rt,
                   lastFailure, pullGiven, writes, faults, hCkpt, hBatch,
                   hWrites>>

\* syncCollection rejects: at `await import('rxjs')` before the channel
\* exists, or at replicateRxCollection after the channel was subscribed;
\* the lines after the failing one are not reached
SyncCollectionRejects(r) ==
    /\ r = Len(hLog) + 1
    /\ cancelPc[r] = "off"
    /\ faults < MaxFaults
    /\ faults' = faults + 1
    /\ \E subscribed \in BOOLEAN :
         channelOn' = [channelOn EXCEPT ![r] = subscribed]
    /\ cancelPc' = [cancelPc EXCEPT ![r] = "failed"]
    /\ hLog' = Append(hLog, [call |-> r, outcome |-> "threw"])
    /\ UNCHANGED <<remote, local, dirty, ckpt, online, pullPc, pushPc, pushRows,
                   resync, rt, stopped, pollArmed, lastFailure, pullGiven,
                   writes, hCkpt, hBatch, hWrites>>

\* what a replication does once it was started, the table unchanged
Replicating(r) ==
    /\ \/ PullInvoke(r)
       \/ PullQueryOk(r)
       \/ PullQueryFail(r)
       \/ PullRetry(r)
       \/ PollTick(r)
    /\ UNCHANGED harnessVars

\* initDB of one effect run: the calls are awaited one after the other in
\* one async function without a catch, index r is the r-th collection
NoRejection == \A k \in DOMAIN hLog : hLog[k].outcome = "started"

InitDBCall(r) ==
    /\ NoRejection
    /\ \/ SyncCollectionReturns(r)
       \/ SyncCollectionRejects(r)

NextStartup ==
    \/ \E r \in Replicas : InitDBCall(r) \/ Replicating(r)
    \/ (DeviceOffline \/ DeviceOnline) /\ UNCHANGED harnessVars

StartupFairness ==
    \A r \in Replicas : WF_vars(InitDBCall(r))

SpecStartup == HostInit /\ [][NextStartup]_vars /\ StartupFairness

\* the effect of DatabaseProvider runs again (it has no cleanup and no
\* guard): index r is the r-th run's syncCollection call for one and the
\* same collection and table
EffectRun(r) ==
    \/ SyncCollectionReturns(r)
    \/ SyncCollectionRejects(r)

NextMount ==
    \/ \E r \in Replicas : EffectRun(r) \/ Replicating(r)
    \/ (DeviceOffline \/ DeviceOnline) /\ UNCHANGED harnessVars

SpecMount == HostInit /\ [][NextMount]_vars

\* RxDB starts a push when there are unpushed changes, a remote call ends,
\* the retry timer fires and the browser reports 'online' again
Fairness ==
    \A r \in Started :
        /\ WF_vars(PushInvoke(r) /\ UNCHANGED harnessVars)
        /\ WF_vars(PushUpsertOk(r) /\ UNCHANGED harnessVars)
        /\ WF_vars(PushRetry(r) /\ UNCHANGED harnessVars)
        /\ WF_vars(GoOnline(r) /\ UNCHANGED harnessVars)

\* the device starts on an empty table; its pull queries are answered
InitLive ==
    /\ HarnessIdle
    /\ remote = EmptyTable
    /\ StartedInit

LiveStep(r) ==
    \/ SyncStep(r)
    \/ PushUpsertFail(r)
    \/ PushRetry(r)
    \/ GoOnline(r)
    \/ GoOffline(r)
    \/ CancelCall(r)
    \/ CancelFinish(r)

NextLive == (\E r \in Started : LiveStep(r)) /\ UNCHANGED harnessVars

SpecLive == InitLive /\ [][NextLive]_vars /\ Fairness

\* ----------------------------------------------------- mapper calls
\* One document of one collection is mapped to its remote row and back.
MapperInit ==
    /\ ReplInit
    /\ remote = EmptyTable
    /\ HarnessIdle

RoundTrip(collection) ==
    /\ hLog = <<>>
    /\ \E doc \in Documents(collection) :
         \E row \in {ToRemote(collection, doc)} :
            hLog' = <<[collection |-> collection, doc |-> doc, row |-> row,
                       back |-> ToLocal(collection, row)]>>
    /\ UNCHANGED <<remote, replVars, hCkpt, hBatch, hWrites>>

MapperNext == \E collection \in Collections : RoundTrip(collection)

SpecMappers == MapperInit /\ [][MapperNext]_vars

\* ------------------------------------------- push, then pull, one document
\* what the table's updated_at column holds for a row that was sent without
\* one: NULL, or a time the database assigned
ColumnDefaults == {Null, "t9"}

StoredRow(row, default) ==
    IF "updated_at" \in DOMAIN row
    THEN [row EXCEPT !.updated_at = IF @ = Absent THEN default ELSE @]
    ELSE [f \in DOMAIN row \cup {"updated_at"} |->
            IF f = "updated_at" THEN default ELSE row[f]]

\* the rows the query of pullHandler returns for a null checkpoint, lowest id
\* first here (one row at most): a NULL updated_at satisfies neither
\* updated_at.gt nor updated_at.eq
Pullable(table) ==
    LET ids == {i \in DOMAIN table : table[i].updated_at # Null}
    IN  IF ids = {} THEN <<>> ELSE <<table[CHOOSE i \in ids : TRUE]>>

ObserveInit ==
    /\ ReplInit
    /\ remote = EmptyTable
    /\ HarnessIdle

\* the application writes a document of the collection on device 1
ObserveWrite(collection) ==
    /\ hLog = <<>>
    /\ \E doc \in Documents(collection) :
         /\ local' = [local EXCEPT ![1] = [i \in {doc.id} |-> doc]]
         /\ dirty' = [dirty EXCEPT ![1] = {doc.id}]
         /\ hLog' = <<[stage |-> "written", collection |-> collection,
                       doc |-> doc]>>
    /\ UNCHANGED <<remote, ckpt, online, pullPc, pushPc, pushRows, resync, rt,
                   stopped, cancelPc, pollArmed, channelOn, lastFailure,
                   pullGiven, writes, faults, hCkpt, hBatch, hWrites>>

\* pushHandler maps and upserts the dirty document; it returns []
ObservePush ==
    /\ Len(hLog) = 1
    /\ \E default \in ColumnDefaults :
         remote' = UpsertRows(remote,
                     <<StoredRow(ToRemote(hLog[1].collection, hLog[1].doc),
                                 default)>>)
    /\ dirty' = [dirty EXCEPT ![1] = {}]
    /\ hLog' = Append(hLog, [stage |-> "pushed"])
    /\ UNCHANGED <<local, ckpt, online, pullPc, pushPc, pushRows, resync, rt,
                   stopped, cancelPc, pollArmed, channelOn, lastFailure,
                   pullGiven, writes, faults, hCkpt, hBatch, hWrites>>

\* pullHandler maps the rows the query returns; RxDB applies the documents
ObservePull ==
    /\ Len(hLog) = 2
    /\ \E data \in {Pullable(remote)} :
         /\ local' = [local EXCEPT
                        ![1] = ApplyFromMaster(@, dirty[1],
                                 [j \in DOMAIN data |->
                                    ToLocal(hLog[1].collection, data[j])])]
         /\ hLog' = Append(hLog, [stage |-> "pulled",
                                  ids |-> {data[j].id : j \in DOMAIN data}])
    /\ UNCHANGED <<remote, dirty, ckpt, online, pullPc, pushPc, pushRows,
                   resync, rt, stopped, cancelPc, pollArmed, channelOn,
                   lastFailure, pullGiven, writes, faults, hCkpt, hBatch,
                   hWrites>>

ObserveNext ==
    \/ \E collection \in Collections : ObserveWrite(collection)
    \/ ObservePush
    \/ ObservePull

SpecObserve == ObserveInit /\ [][ObserveNext]_vars

\* ------------------------------------------- pullHandler call sequences
\* A remote table with rows 1..n, every row with a timestamp after the epoch.
HarnessRow(i, t) == [id |-> i, title |-> 0, updated_at |-> t, deleted |-> FALSE]

PullInit ==
    /\ ReplInit
    /\ \/ \E n \in 0..MaxPullRows :
            \E ts \in [1..n -> PullTimes] :
               remote = [i \in 1..n |-> HarnessRow(i, ts[i])]
       \/ \E n \in 0..MaxTies :
            \E t \in PullTimes :
               remote = [i \in 1..n |-> HarnessRow(i, t)]
    /\ hCkpt = NullCheckpoint
    /\ hBatch \in 1..MaxBatch
    /\ hLog = <<>>
    /\ hWrites = 0

\* One pullHandler call, fed the checkpoint the previous call returned.
HarnessPull ==
    /\ Len(hLog) <= Cardinality(DOMAIN remote) + hWrites
    /\ \E res \in {PullHandler(remote, hCkpt, hBatch)} :
           /\ hLog' = Append(hLog, [given |-> hCkpt,
                                    ids |-> [j \in DOMAIN res.documents |->
                                                res.documents[j].id],
                                    returned |-> res.checkpoint])
           /\ hCkpt' = res.checkpoint
    /\ UNCHANGED <<remote, replVars, hBatch, hWrites>>

\* Another writer upserts a row between two calls.
HarnessUpsert ==
    /\ hWrites < MaxHarnessWrites
    /\ \E i \in 1..(Cardinality(DOMAIN remote) + 1), t \in PullTimes :
         remote' = UpsertRows(remote, <<HarnessRow(i, t)>>)
    /\ hWrites' = hWrites + 1
    /\ UNCHANGED <<replVars, hCkpt, hBatch, hLog>>

PullNext == HarnessPull \/ HarnessUpsert

SpecPull == PullInit /\ [][PullNext]_vars

\* --------------------------------------------------- initial full sync
\* A static table of n rows in clumps of equal timestamps, numbered along or
\* against the timestamp order; the device starts with an empty local store.
SyncTable(n, clump, along) ==
    [i \in 1..n |->
        HarnessRow(i, IF along THEN ((i - 1) \div clump) + 1
                               ELSE ((n - i) \div clump) + 1)]

FullSyncInit ==
    /\ HarnessIdle
    /\ StartedInit
    /\ \E n \in (MaxSyncRows - PullBatchSize \div 2)..MaxSyncRows :
         \E clump \in 1..MaxClump, along \in BOOLEAN :
            remote = SyncTable(n, clump, along)

\* the pull pass of the device, every answered query logged
FullSyncInvoke == PullInvoke(1) /\ UNCHANGED harnessVars

FullSyncQuery ==
    /\ PullQueryOk(1)
    /\ \E res \in {PullHandler(remote, pullGiven[1], PullBatchSize)} :
           hLog' = Append(hLog, [given |-> pullGiven[1],
                                 ids |-> [j \in DOMAIN res.documents |->
                                             res.documents[j].id],
                                 returned |-> res.checkpoint])
    /\ UNCHANGED <<hCkpt, hBatch, hWrites>>

FullSyncNext == FullSyncInvoke \/ FullSyncQuery

SpecFullSync == FullSyncInit /\ [][FullSyncNext]_vars

\* ====================================================================
\* Properties of pullHandler call sequences (SpecPull)
\* ====================================================================
Pages == [k \in DOMAIN hLog |-> hLog[k].ids]

\* how often id i was returned by the calls so far
TimesReturned(i) ==
    Cardinality({<<k, j>> \in (DOMAIN hLog) \X (1..MaxBatch) :
                    j <= Len(hLog[k].ids) /\ hLog[k].ids[j] = i})

\* all rows of the table carry one updated_at
OneTimestamp ==
    \A i, k \in DOMAIN remote : remote[i].updated_at = remote[k].updated_at

\* the last call returned an empty page: the full pull is over
PullComplete == Len(hLog) > 0 /\ hLog[Len(hLog)].ids = <<>>

\* C1: over a sequence of pullHandler calls against one remote table, each fed
\* the checkpoint the previous call returned, the returned checkpoints never
\* decrease in (updated_at, id) order, and a call that returns a non-empty
\* batch returns a checkpoint strictly greater than the one it was given.
C1_CheckpointMonotone ==
    \A k \in DOMAIN hLog :
        /\ CkptLeq(hLog[k].given, hLog[k].returned)
        /\ hLog[k].ids # <<>> => ~CkptLeq(hLog[k].returned, hLog[k].given)
        /\ \A j \in 1..k : CkptLeq(hLog[j].returned, hLog[k].returned)
        /\ k > 1 => hLog[k].given = hLog[k - 1].returned

\* two non-empty batches with a remote write between them, the second one
\* taken inside a clump of equal timestamps
C1_Witness ==
    /\ Len(hLog) >= 2
    /\ hWrites > 0
    /\ hLog[1].ids # <<>>
    /\ hLog[2].ids # <<>>
    /\ hLog[2].returned.updated_at = hLog[1].returned.updated_at

\* C24: the checkpoint a pullHandler call returns is the (updated_at, id)
\* pair of the last row of its batch when the batch is not empty, and the
\* checkpoint it was given, unchanged (null included), when it is empty.
C24_CheckpointAdvance ==
    [][Len(hLog') = Len(hLog) + 1 =>
          \A e \in {hLog'[Len(hLog')]} :
             /\ e.given = hCkpt
             /\ e.ids = <<>> => e.returned = hCkpt
             /\ e.ids # <<>> =>
                   /\ e.returned.id = e.ids[Len(e.ids)]
                   /\ e.returned.updated_at
                         = remote[e.ids[Len(e.ids)]].updated_at
                   /\ ~e.returned.isNull]_vars

\* a call given a saved checkpoint returned an empty batch and that
\* checkpoint, after a call given the null checkpoint returned rows
C24_Witness ==
    /\ Len(hLog) >= 2
    /\ hLog[1].given.isNull /\ hLog[1].ids # <<>>
    /\ hLog[Len(hLog)].ids = <<>> /\ ~hLog[Len(hLog)].given.isNull
    /\ hLog[Len(hLog)].returned = hLog[Len(hLog)].given

\* the ids of the rows of the table strictly greater than checkpoint c in
\* (updated_at, id) order: all of them for the null checkpoint
Beyond(c) ==
    {i \in DOMAIN remote :
        \/ c.isNull
        \/ remote[i].updated_at > c.updated_at
        \/ remote[i].updated_at = c.updated_at /\ i > c.id}

\* row i comes before row k in (updated_at, id) order
Precedes(i, k) ==
    \/ remote[i].updated_at < remote[k].updated_at
    \/ remote[i].updated_at = remote[k].updated_at /\ i < k

C2_NoSkipUnderTies ==
    (hWrites = 0 /\ OneTimestamp) =>
        /\ \A i \in DOMAIN remote : TimesReturned(i) <= 1
        /\ PullComplete => \A i \in DOMAIN remote : TimesReturned(i) = 1
        /\ (Cardinality(DOMAIN remote) = 5 /\ hBatch = 2 /\ Len(hLog) >= 3) =>
              /\ SubSeq(Pages, 1, 3) = << <<1, 2>>, <<3, 4>>, <<5>> >>
              /\ hLog[3].returned.id = 5

\* five rows with one timestamp were pulled completely in pages of two
C2_Witness ==
    /\ hWrites = 0
    /\ OneTimestamp
    /\ Cardinality(DOMAIN remote) = 5
    /\ hBatch = 2
    /\ PullComplete

\* ====================================================================
\* The initial full sync (SpecFullSync)
\* ====================================================================
\* the first pull pass of device 1 is over
PassOver == pullPc[1] = "idle" /\ ~resync[1]

\* the row counts of the answered queries
BatchSizes == [k \in DOMAIN hLog |-> Len(hLog[k].ids)]

\* the last row of the table in (updated_at, id) order
LastRow(table) ==
    CHOOSE x \in {table[k] : k \in DOMAIN table} :
        \A k \in DOMAIN table : ~RowBefore(x, table[k])

\* 120 rows
ScenarioRows == 2 * PullBatchSize + 20

\* C3: with an empty local store, a null checkpoint, a static table of 120
\* rows and batch size 50 the pull pass issues exactly three queries, which
\* return 50, 50 and 20 rows, and ends with the checkpoint of the table's
\* last row in (updated_at, id) order; for every table size n the pass ends
\* after n \div 50 + 1 queries on that row's checkpoint.
C3_InitialFullSync ==
    LET n == Cardinality(DOMAIN remote)
    IN  PassOver =>
          /\ Len(hLog) = n \div PullBatchSize + 1
          /\ \A k \in DOMAIN hLog :
                BatchSizes[k] = IF k <= n \div PullBatchSize
                                THEN PullBatchSize ELSE n % PullBatchSize
          /\ n = ScenarioRows => BatchSizes = <<50, 50, 20>>
          /\ \E x \in {LastRow(remote)} :
                ckpt[1] = Checkpoint(x.updated_at, x.id)
          /\ DOMAIN local[1] = DOMAIN remote

\* the pass over the 120-row table is over
C3_Witness ==
    /\ Cardinality(DOMAIN remote) = ScenarioRows
    /\ PassOver
    /\ Len(hLog) = 3
    /\ local[1][ScenarioRows] = mapToLocal(remote[ScenarioRows])

\* ====================================================================
\* Faults and cancellation on one device (SpecFaults)
\* ====================================================================
\* C4: once cancel() of a collection's replication state has completed, no
\* further remote query or upsert is issued for that collection, neither by
\* the poll interval nor by a handler that was suspended in waitForOnline
\* when cancel() ran and is woken by a later 'online' event.
C4_NoCallAfterCancel ==
    [][\A r \in Replicas :
          cancelPc[r] = "done" =>
             /\ pullPc'[r] = "querying" => pullPc[r] = "querying"
             /\ pushPc'[r] = "upserting" => pushPc[r] = "upserting"]_vars

\* C5: a remote call that fails with an Unreachable error makes the handler
\* emit no 'sync-error' event and write a debug-level log record only.
C5_OfflineSuppressed ==
    \A r \in Replicas :
        lastFailure[r].kind = "Unreachable" =>
            /\ lastFailure[r].syncErrors = 0
            /\ lastFailure[r].logs = {"debug"}

\* C10: a pullHandler failure that is not Unreachable emits a 'sync-error'
\* event, and afterwards no remote query is issued for the collection by the
\* retry timer or by the poll interval (the code has no manual retry).
C10_RejectedStopsPull ==
    /\ [](\A r \in Replicas :
            (lastFailure[r].src = "pull" /\ lastFailure[r].kind = "Rejected")
               => lastFailure[r].syncErrors >= 1)
    /\ [][\A r \in Replicas :
            (/\ lastFailure[r].src = "pull"
             /\ lastFailure[r].kind = "Rejected"
             /\ pullPc[r] # "querying")
               => pullPc'[r] # "querying"]_vars

\* C11: an Unreachable failure is absorbed inside the handler: no exception
\* leaves pullHandler or pushHandler, so the replication error stream (whose
\* subscription writes the error-level record) receives nothing for it.
C11_UnreachableAbsorbed ==
    \A r \in Replicas :
        lastFailure[r].kind = "Unreachable" =>
            /\ ~lastFailure[r].rethrown
            /\ "error" \notin lastFailure[r].logs

\* C12: when a call of cancel() has returned, all three release actions have
\* been executed (poll interval cleared, realtime channel removed unless its
\* removal itself failed, underlying replication stopped) even if one of
\* them failed; and a further call of cancel() after a completed one changes
\* nothing.
C12_CancelComposed ==
    /\ [](\A r \in Replicas :
            cancelPc[r] \in {"done", "failed"} =>
               /\ ~pollArmed[r]
               /\ stopped[r]
               /\ cancelPc[r] = "done" => ~channelOn[r])
    /\ [][\A r \in Replicas :
            (cancelPc[r] = "done" \/ cancelPc'[r] = "done") =>
               (stopped[r] => stopped'[r] /\ ~channelOn'[r] /\ ~pollArmed'[r])]_vars

C18_ErrorIsolation ==
    /\ [](\A r \in Replicas :
            lastFailure[r].src # "none" => lastFailure[r].syncErrors >= 1)
    /\ [][\A r \in Replicas :
            lastFailure'[r] # lastFailure[r] =>
               /\ channelOn'[r] = channelOn[r]
               /\ pollArmed'[r] = pollArmed[r]
               /\ stopped'[r] = stopped[r]
               /\ lastFailure'[r].src # "pull" => pullPc'[r] = pullPc[r]
               /\ lastFailure'[r].src # "push" => pushPc'[r] = pushPc[r]]_vars

\* ====================================================================
\* Several collections on one device (SpecCollections)
\* ====================================================================
\* C19: a step of cancelling one collection's replication, or a failure of
\* one collection's replication, changes nothing in another collection's
\* replication: its checkpoint, channel, poll interval, running status and
\* handler positions stay as they were.
C19_CollectionIndependence ==
    [][\A r \in Replicas : \A q \in Replicas \ {r} :
          (cancelPc'[r] # cancelPc[r] \/ lastFailure'[r] # lastFailure[r]) =>
             /\ ckpt'[q] = ckpt[q]
             /\ channelOn'[q] = channelOn[q]
             /\ pollArmed'[q] = pollArmed[q]
             /\ stopped'[q] = stopped[q]
             /\ pullPc'[q] = pullPc[q]
             /\ local'[q] = local[q]]_vars

\* one collection was cancelled after a Rejected pull failure while another
\* is running, subscribed, armed, and has pulled its table
C19_Witness ==
    \E r \in Replicas : \E q \in Replicas \ {r} :
        /\ cancelPc[r] = "done"
        /\ lastFailure[r].src = "pull"
        /\ lastFailure[r].kind = "Rejected"
        /\ ~stopped[q] /\ channelOn[q] /\ pollArmed[q]
        /\ ~ckpt[q].isNull

\* the remote table holds document i with the content device r has locally
OnRemote(r, i) ==
    /\ i \in DOMAIN remote
    /\ i \in DOMAIN local[r]
    /\ remote[i] = mapToRemote(local[r][i])

\* C8: a dirty document stops being dirty only in the step in which an
\* upsert puts its local content on the remote table; a pushHandler call
\* that fails leaves every document dirty and is retried; and, with the
\* fairness of SpecLive, every dirty document of a replication that is not
\* cancelled is eventually on the remote table with its local content.
C8_NoLostWrite ==
    /\ [][\A r \in Replicas : \A i \in dirty[r] :
            i \notin dirty'[r] =>
               /\ pushPc[r] = "upserting"
               /\ i \in DOMAIN remote'
               /\ remote'[i] = mapToRemote(local[r][i])
               /\ local'[r][i] = local[r][i]]_vars
    /\ [][\A r \in Replicas :
            (/\ pushPc[r] = "upserting"
             /\ pushPc'[r] # "upserting"
             /\ ~stopped[r])
               => \/ \A j \in DOMAIN pushRows[r] :
                       /\ pushRows[r][j].id \in DOMAIN remote'
                       /\ remote'[pushRows[r][j].id]
                            = mapToRemote(pushRows[r][j])
                  \/ /\ dirty'[r] = dirty[r]
                     /\ pushPc'[r] = "retry"
                     /\ pushRows'[r] = pushRows[r]]_vars
    /\ \A r \in Started : \A i \in Ids :
          (i \in dirty[r]) ~> (OnRemote(r, i) \/ cancelPc[r] # "none")

\* a push failed, was retried, and the document is on the remote table
C8_Witness ==
    \E r \in Started : \E i \in Ids :
        /\ lastFailure[r].src = "push"
        /\ cancelPc[r] = "none"
        /\ i \notin dirty[r]
        /\ OnRemote(r, i)
        /\ local[r][i].title > 0

\* ====================================================================
\* Several devices writing to one table (Spec)
\* ====================================================================
\* the document batches device r can be handed in this state: the documents
\* of a pull from the start or from its checkpoint, and of each pending
\* realtime event
Batches(r) ==
    {PullHandler(remote, c, PullBatchSize).documents :
        c \in {c \in {NullCheckpoint, ckpt[r]} : QueryValid(c)}}
    \cup {RealtimeItems(payload)[1].documents :
            payload \in {q \in rt[r] : RealtimeItems(q) # <<>>}}

\* every document of batch b also occurs in batch a
Within(b, a) == \A j \in DOMAIN b : \E k \in DOMAIN a : a[k] = b[j]

Synced(collection, doc) ==
    [f \in DOMAIN doc \ (IF collection = "users" THEN {"password"} ELSE {})
        |-> doc[f]]

\* C14: for each of the five collections and every valid local document d,
\* mapXToLocal(mapXToRemote(d)) equals d on every field except the user
\* password: updatedAt, optional fields holding the empty string and
\* percentComplete = 0 included.
C14_MapperRoundTrip ==
    \A j \in DOMAIN hLog :
        Synced(hLog[j].collection, hLog[j].back)
            = Synced(hLog[j].collection, hLog[j].doc)

\* C20: the row mapUserToRemote builds has no password field and is the
\* same row for any two user documents that differ only in password, and
\* mapUserToLocal gives the password the fixed placeholder 'encrypted'.
C20_CredentialsStayLocal ==
    \A j \in DOMAIN hLog :
        hLog[j].collection = "users" =>
           /\ "password" \notin DOMAIN hLog[j].row
           /\ \A other \in Documents("users") :
                 Synced("users", other) = Synced("users", hLog[j].doc)
                    => mapUserToRemote(other) = hLog[j].row
           /\ hLog[j].back.password = "encrypted"

\* a user document whose password is not the placeholder went through
\* both mappers
C20_Witness ==
    \E j \in DOMAIN hLog :
        /\ hLog[j].collection = "users"
        /\ hLog[j].doc.password = "q"
        /\ hLog[j].back.password # hLog[j].doc.password

\* C29: the row a toRemote mapper builds has the columns the
\* synchronisation needs, each with a defined value: id, deleted and the
\* cursor column updated_at, for all five collections and also when the
\* optional fields of the document are absent.
C29_DefinedDefaults ==
    \A j \in DOMAIN hLog :
        /\ "id" \in DOMAIN hLog[j].row /\ hLog[j].row.id # Absent
        /\ "deleted" \in DOMAIN hLog[j].row
        /\ "updated_at" \in DOMAIN hLog[j].row
        /\ hLog[j].row.updated_at # Absent

\* C15: after a document was pushed and its row was returned by a later
\* pull of the same device, the local store holds exactly one document with
\* that id, and its content (the synchronised fields) is the pushed content.
C15_PushThenPull ==
    (Len(hLog) = 3 /\ hLog[1].doc.id \in hLog[3].ids) =>
        /\ DOMAIN local[1] = {hLog[1].doc.id}
        /\ Synced(hLog[1].collection, local[1][hLog[1].doc.id])
             = Synced(hLog[1].collection, hLog[1].doc)

\* the soft-delete flag through the five mappers: deleted is true exactly
\* when _deleted is set, and _deleted comes back as the row's deleted
SoftDeleteMapped ==
    \A collection \in Collections : \A doc \in Documents(collection) :
        \A row \in {ToRemote(collection, doc)} :
            /\ row.deleted = (doc._deleted = TRUE)
            /\ ToLocal(collection, row)._deleted = row.deleted

\* C21: deletion is an upsert with the delete marker set: the mappers
\* translate the flag verbatim in both directions, a successful push leaves
\* a row for every pushed document with deleted = true exactly when the
\* document is deleted, and no step removes an id from the remote table.
C21_SoftDeleteOnly ==
    [][/\ SoftDeleteMapped
       /\ DOMAIN remote \subseteq DOMAIN remote'
       /\ \A r \in Replicas :
            (pushPc[r] = "upserting" /\ pushPc'[r] = "idle") =>
               \A j \in DOMAIN pushRows[r] :
                  /\ pushRows[r][j].id \in DOMAIN remote'
                  /\ remote'[pushRows[r][j].id].deleted
                        = (pushRows[r][j]._deleted = TRUE)
                  /\ mapToLocal(remote'[pushRows[r][j].id])._deleted
                        = pushRows[r][j]._deleted]_vars

\* a locally deleted document was pushed: its row is on the remote table
\* with deleted = true, next to the row of another document
C21_Witness ==
    \E r \in Replicas : \E i \in DOMAIN remote :
        /\ remote[i].deleted
        /\ i \in DOMAIN local[r] /\ local[r][i]._deleted
        /\ i \notin dirty[r]
        /\ pushPc[r] = "idle"
        /\ Cardinality(DOMAIN remote) > 1

\* C22: once a pull batch ending with the current row of a document has
\* been applied (the checkpoint is that row's pair), a realtime event that
\* delivers an older version of the document leaves the stored, newer
\* version in place.
C22_OutOfOrderDelivery ==
    [][\A r \in Replicas : \A payload \in rt[r] :
          (/\ rt'[r] = rt[r] \ {payload}
           /\ ~payload.errors
           /\ payload.new.id \in DOMAIN local[r] \cap DOMAIN remote
           /\ payload.new.id \notin dirty[r]
           /\ local[r][payload.new.id] = mapToLocal(remote[payload.new.id])
           /\ ckpt[r] = Checkpoint(remote[payload.new.id].updated_at,
                                   payload.new.id)
           /\ payload.new.updated_at < local[r][payload.new.id].updatedAt)
          => local'[r][payload.new.id] = local[r][payload.new.id]]_vars

\* the rows the query of the running pullHandler call of r fetches
Fetched(r) ==
    SelectRows(remote, LastUpdatedAt(pullGiven[r]), LastId(pullGiven[r]),
               PullBatchSize)

C26_PushOneUpsert ==
    [][\A r \in Replicas :
          (pushPc[r] = "upserting" /\ pushPc'[r] = "idle") =>
             \A ids \in {{pushRows[r][j].id : j \in DOMAIN pushRows[r]}} :
                /\ Cardinality(ids) = Len(pushRows[r])
                /\ DOMAIN remote' = DOMAIN remote \cup ids
                /\ \A j \in DOMAIN pushRows[r] :
                      remote'[pushRows[r][j].id]
                         = mapToRemote(pushRows[r][j])
                /\ \A i \in DOMAIN remote \ ids : remote'[i] = remote[i]
                /\ local'[r] = local[r]
                /\ ~stopped[r] =>
                      dirty'[r] = {i \in dirty[r] :
                                     \/ i \notin ids
                                     \/ \E j \in DOMAIN pushRows[r] :
                                           /\ pushRows[r][j].id = i
                                           /\ local[r][i] # pushRows[r][j]}]_vars

\* a push went through over a row another device had pushed with a later
\* updatedAt: the table holds the pushing device's row, nothing is unpushed
\* on either device, and the devices hold different versions
C26_Witness ==
    \E r \in Replicas : \E q \in Replicas \ {r} : \E i \in DOMAIN remote :
        /\ i \in DOMAIN local[r] /\ i \in DOMAIN local[q]
        /\ remote[i] = mapToRemote(local[r][i])
        /\ local[q][i].updatedAt > local[r][i].updatedAt
        /\ dirty[r] = {} /\ dirty[q] = {}
        /\ pushPc[r] = "idle" /\ pushPc[q] = "idle"
        /\ writes = MaxWrites

\* C27: when a payload reaches the callback, an INSERT or UPDATE without
\* errors yields exactly one stream item with exactly one document,
\* mapToLocal of the new row, which is then in the store; a DELETE and a
\* payload with errors yield nothing and leave store and checkpoint as
\* they were.
C27_RealtimeFiltering ==
    [][\A r \in Replicas : \A payload \in rt[r] :
          rt'[r] = rt[r] \ {payload} =>
             \A items \in {RealtimeItems(payload)} :
                IF ~payload.errors /\ payload.eventType \in {"INSERT", "UPDATE"}
                THEN /\ Len(items) = 1
                     /\ items[1].documents = <<mapToLocal(payload.new)>>
                     /\ DOMAIN local'[r] = DOMAIN local[r] \cup {payload.new.id}
                     /\ local'[r][payload.new.id] = mapToLocal(payload.new)
                     /\ \A i \in DOMAIN local[r] \ {payload.new.id} :
                           local'[r][i] = local[r][i]
                ELSE /\ items = <<>>
                     /\ local' = local
                     /\ ckpt' = ckpt
                     /\ pullPc' = pullPc /\ resync' = resync
                     /\ remote' = remote]_vars

\* the device holds a document from an INSERT event as that event brought
\* it, after an UPDATE of the row that did not get through and the removal
\* of the row from the table: every event is through
C27_Witness ==
    \E r \in Started : \E i \in DOMAIN local[r] :
        /\ remote = EmptyTable
        /\ hWrites = MaxEvents
        /\ local[r][i].title = 1
        /\ pullPc[r] = "idle" /\ ~resync[r]
        /\ rt[r] = {}

\* ====================================================================
\* The host (SpecMount, SpecStartup)
\* ====================================================================
\* C28: however often the effect of DatabaseProvider runs, the collection
\* has at most one replication that is not stopped, at most one subscribed
\* realtime channel and at most one poll interval.
C28_OneReplicationPerCollection ==
    /\ Cardinality({r \in Replicas : ~stopped[r]}) <= 1
    /\ Cardinality({r \in Replicas : channelOn[r]}) <= 1
    /\ Cardinality({r \in Replicas : pollArmed[r]}) <= 1

\* C30: every collection's replication is eventually running unless its
\* own start failed: a failed start of an earlier collection does not keep
\* a later one from being started.
C30_IndependentStartup ==
    \A r \in Replicas : <>(~stopped[r] \/ cancelPc[r] = "failed")

\* C6: the remote row of a document always holds the version with the
\* greatest updatedAt pushed so far: an upsert carrying an older updatedAt
\* never replaces a row with a newer updated_at, whatever the arrival order.
C6_LastWriteWins ==
    [][\A i \in DOMAIN remote :
          /\ i \in DOMAIN remote'
          /\ remote'[i].updated_at >= remote[i].updated_at]_vars

\* C17: a pull pass is requested only by a tick of the armed poll interval
\* on a device that is online and whose replication is not stopped; and the
\* pull pass that follows a tick makes up for dropped realtime events: when
\* it ends, the local store holds every row of the table (documents with
\* unpushed local changes aside).
C17_PollingFallback ==
    [][\A r \in Replicas :
          /\ (~resync[r] /\ resync'[r])
                => (pollArmed[r] /\ online[r] /\ ~stopped[r])
          /\ (pullPc[r] = "querying" /\ pullPc'[r] = "idle" /\ ~stopped[r])
                => \A i \in DOMAIN remote \ dirty[r] :
                      /\ i \in DOMAIN local'[r]
                      /\ local'[r][i] = mapToLocal(remote[i])]_vars

\* nothing is left to push, pull or deliver on device r
CaughtUp(r) ==
    /\ dirty[r] = {}
    /\ pullPc[r] = "idle"
    /\ pushPc[r] = "idle"
    /\ ~resync[r]
    /\ rt[r] = {}
    /\ QueryValid(ckpt[r])
    /\ PullHandler(remote, ckpt[r], PullBatchSize).documents = <<>>

\* the local store of device r holds exactly the documents of the table
InSync(r) ==
    /\ DOMAIN local[r] = DOMAIN remote
    /\ \A i \in DOMAIN remote : local[r][i] = mapToLocal(remote[i])

\* C7: when every device is online, has nothing left to push and its pull
\* has caught up (a further pull pass returns nothing), every local store
\* holds the same documents as the remote table, whatever updatedAt values
\* the writers used and even if realtime events were dropped.
C7_Convergence ==
    (\A r \in Replicas : online[r] /\ CaughtUp(r)) =>
        \A r \in Replicas : InSync(r)

\* C9: realtime events leave the pagination cursor alone: the checkpoint
\* RxDB keeps for the next pullHandler call changes only when a pull query
\* is answered, and the checkpoint a pullHandler call receives is null or
\* has both components defined.
C9_RealtimeKeepsCursor ==
    /\ [](\A r \in Replicas : pullPc[r] # "idle" => QueryValid(pullGiven[r]))
    /\ [][\A r \in Replicas :
            ckpt'[r] # ckpt[r] => pullPc[r] = "querying"]_vars

====
